---- MODULE Spec2Model ----
(***************************************************************************)
(* Model of the two AnkiConnect upload scripts of anki-tools:              *)
(*   scripts/upload-csv-to-new-deck.py      (script = "csv")               *)
(*   scripts/upload-classical-authors.py    (script = "classical")         *)
(* Each script is a strictly sequential main(): configuration, three       *)
(* set-up calls, loading and mapping of the CSV rows, one canAddNotes call *)
(* per batch and one addNotes call per batch.  The HTTP service is the     *)
(* environment: every response is drawn from a small set when the call is  *)
(* made, and every call is appended to the transport log `calls`.          *)
(*                                                                         *)
(* Python values: a str is a sequence of one-character strings, pandas'    *)
(* missing value is NaN, Python's None is None.                            *)
(***************************************************************************)
EXTENDS Integers, Sequences, FiniteSets, TLC

VARIABLES
    script,                     \* which of the two scripts runs
    batch_size,                 \* the n handed to chunk (100 in the source, scaled)
    pc,                         \* position in main()
    exit_status,                \* process exit status 0 or 1, -1 while main() runs
    error_kind,                 \* the exception that ended the run, or None
    config,                     \* the parsed configuration file
    df_input,                   \* the rows read by pd.read_csv
    fields_to_upload,           \* the mapped (and, in csv, filtered) note fields
    notes_to_upload,            \* the notes built from fields_to_upload
    calls,                      \* transport log: every post_anki call with its response
    batch_idx,                  \* batches already consumed in the current for loop
    notes_added_num_successes,  \* csv: running total of added notes
    notes_added_num_failures,   \* csv: running total of failed notes
    printed                     \* failure lines written to stdout, in order

vars == << script, batch_size, pc, exit_status, error_kind, config, df_input,
           fields_to_upload, notes_to_upload, calls, batch_idx,
           notes_added_num_successes, notes_added_num_failures, printed >>

-----------------------------------------------------------------------------
(* Bounds of the model *)

MaxRows == 3

MaxBatchSize == 2

(* Program constants *)

ANKI_VERSION_NUMBER == 6

-----------------------------------------------------------------------------
(* Python values *)

None == "None"

\* a str is the sequence of the code points of its characters (ord of each)
\* float('nan'), the missing cell of a data frame: no str, as -1 is no code point
NaN == << -1 >>

\* the characters str.strip() removes, those str.isspace() is true of:
\* U+0009..U+000D, U+001C..U+001F, U+0020, U+0085, U+00A0, U+1680,
\* U+2000..U+200A, U+2028, U+2029, U+202F, U+205F, U+3000
Whitespace ==
    (9..13) \cup (28..32) \cup { 133, 160, 5760 } \cup (8192..8202)
    \cup { 8232, 8233, 8239, 8287, 12288 }

Scripts == { "csv", "classical" }

Min(a, b) == IF a < b THEN a ELSE b

\* str(x) of a cell value: a string is itself, the missing value prints as "nan"
str(raw_value) == IF raw_value = NaN THEN << 110, 97, 110 >> ELSE raw_value

\* pd.notnull(x)
notnull(raw_value) == raw_value # NaN

RECURSIVE lstrip(_)
lstrip(s) == IF s # << >> /\ Head(s) \in Whitespace THEN lstrip(Tail(s)) ELSE s

RECURSIVE rstrip(_)
rstrip(s) ==
    IF s # << >> /\ s[Len(s)] \in Whitespace
    THEN rstrip(SubSeq(s, 1, Len(s) - 1))
    ELSE s

\* str.strip()
strip(s) == rstrip(lstrip(s))

\* d[k] = v on a dict modelled as a function
DictSet(d, k, v) == [ x \in (DOMAIN d) \cup { k } |-> IF x = k THEN v ELSE d[x] ]

EmptyDict == [ x \in { } |-> None ]

-----------------------------------------------------------------------------
(* chunk: the batch generator of both scripts *)

\* tuple(itertools.islice(it, n)): the next n items of the iterator, fewer at its end
islice(it, n) == SubSeq(it, 1, Min(n, Len(it)))

\* variant of consumed: the iterator is advanced one item too far
consumed_one_more(it, n) == SubSeq(it, Min(n + 1, Len(it)) + 1, Len(it))

\* the iterator after islice consumed its items
consumed(it, n) == SubSeq(it, Min(n, Len(it)) + 1, Len(it))

\* variant of chunk_loop: the loop stops at the first batch shorter than n
RECURSIVE chunk_loop_full_batches(_, _, _)
chunk_loop_full_batches(it, batch, n) ==
    IF Len(batch) < n
    THEN << >>
    ELSE << batch >> \o chunk_loop_full_batches(consumed(it, n), islice(it, n), n)

\* the while loop: yield batch, take the next one, until a batch is empty
RECURSIVE chunk_loop(_, _, _)
chunk_loop(it, batch, n) ==
    IF batch = << >>
    THEN << >>
    ELSE << batch >> \o chunk_loop(consumed(it, n), islice(it, n), n)

\* list(chunk(iterable, n))
chunk(iterable, n) == chunk_loop(consumed(iterable, n), islice(iterable, n), n)

-----------------------------------------------------------------------------
(* Configuration file *)

DeckName == "Classics"

NoteType == "Basic"

\* the keys each script requires of its configuration file
RequiredKeys(s) ==
    IF s = "csv"
    THEN { "csv_path", "deck_name", "note_type", "columns_to_note_fields",
           "allow_duplicates", "index_field" }
    ELSE { "deck_name", "note_type", "csv_columns_to_note_fields" }

Pair(c, f) == [ column |-> c, field |-> f ]

\* column -> field tables, in the iteration order of the JSON object
MappingTables ==
    { << Pair("c1", "f1"), Pair("c2", "f2") >>,
      << Pair("c1", "f1"), Pair("c2", "f1") >>,
      << Pair("c3", "f1") >>,
      << >> }

Config(keys, table, allow, index) ==
    [ keys |-> keys, deck_name |-> DeckName, note_type |-> NoteType,
      columns_to_note_fields |-> table, allow_duplicates |-> allow,
      index_field |-> index ]

NoConfig == Config({ }, << >>, FALSE, None)

\* configuration files the run may be given: complete ones, and ones lacking one key
Configs(s) ==
    { Config(RequiredKeys(s), t, a, "f1") :
        t \in MappingTables,
        a \in IF s = "csv" THEN BOOLEAN ELSE { FALSE } }
    \cup
    { Config(RequiredKeys(s) \ { k }, << Pair("c1", "f1"), Pair("c2", "f2") >>,
             FALSE, "f1") : k \in RequiredKeys(s) }

\* assert_key_in_dict(k, d) passes
assert_key_in_dict(k, d) == k \in d.keys

\* variant of parse_config_ok: only the deck and the note type are asserted
parse_config_names_only(d) ==
    assert_key_in_dict("deck_name", d) /\ assert_key_in_dict("note_type", d)

\* parse_config: every field of ScriptConfig must be a key of the file
parse_config_ok(d) == \A field \in RequiredKeys("csv") : assert_key_in_dict(field, d)

-----------------------------------------------------------------------------
(* Record source *)

Columns == { "c1", "c2" }

Row(v1, v2) == [ c \in Columns |-> IF c = "c1" THEN v1 ELSE v2 ]

\* rows of the CSV file: padded, plain, blank and missing cells
\* ("\ta\u3000" and "a"; "b" and "\u2003"; missing and " ")
RawRecords ==
    { Row(<< 9, 97, 12288 >>, << 97 >>),
      Row(<< 98 >>, << 8195 >>),
      Row(NaN, << 32 >>) }

RECURSIVE SeqsUpTo(_, _)
SeqsUpTo(S, k) ==
    IF k = 0
    THEN { << >> }
    ELSE LET shorter == SeqsUpTo(S, k - 1)
         IN  shorter \cup { Append(q, x) : q \in { r \in shorter : Len(r) = k - 1 }, x \in S }

\* the data frames pd.read_csv may return
DataFrames == SeqsUpTo(RawRecords, MaxRows)

\* pd.read_csv cannot open its source: the file of csv_path, the URL of the classics
read_csv_error(s) == IF s = "csv" THEN "FileNotFoundError" ELSE "URLError"

\* pd_row.loc[column] raises KeyError for a column the frame does not have
loc_raises(df, table) ==
    /\ df # << >>
    /\ \E i \in 1..Len(table) : table[i].column \notin Columns

-----------------------------------------------------------------------------
(* Field mapping *)

\* upload-csv-to-new-deck.py: blank and missing cells are left out
RECURSIVE pd_row_to_note_fields_loop(_, _, _)
pd_row_to_note_fields_loop(pd_row, items, note) ==
    IF items = << >>
    THEN note
    ELSE LET raw_value == pd_row[Head(items).column]
             keep == notnull(raw_value) /\ strip(str(raw_value)) # << >>
         IN  pd_row_to_note_fields_loop(
                 pd_row, Tail(items),
                 IF keep
                 THEN DictSet(note, Head(items).field, strip(str(raw_value)))
                 ELSE note)

pd_row_to_note_fields(pd_row, columns_to_note_fields) ==
    pd_row_to_note_fields_loop(pd_row, columns_to_note_fields, EmptyDict)

\* upload-classical-authors.py: every cell is converted, whatever it holds
csv_column_to_field(pd_row, column) == strip(str(pd_row[column]))

RECURSIVE classical_fields_loop(_, _, _)
classical_fields_loop(row, items, fields) ==
    IF items = << >>
    THEN fields
    ELSE classical_fields_loop(
             row, Tail(items),
             DictSet(fields, Head(items).field,
                     csv_column_to_field(row, Head(items).column)))

classical_fields(row, columns_to_fields_map) ==
    classical_fields_loop(row, columns_to_fields_map, EmptyDict)

\* variant of csv_fields_to_upload: the rows that lack the index field are
\* filtered out only when duplicates are not allowed
csv_fields_filtered_when_strict(df, cfg) ==
    LET mapped == [ i \in 1..Len(df) |->
                      pd_row_to_note_fields(df[i], cfg.columns_to_note_fields) ]
        has_index(f) == cfg.index_field \in DOMAIN f
    IN  IF cfg.allow_duplicates THEN mapped ELSE SelectSeq(mapped, has_index)

\* variant of csv_fields_to_upload: nothing is kept after the first row that lacks
\* the index field
csv_fields_until_missing_index(df, cfg) ==
    LET mapped == [ i \in 1..Len(df) |->
                      pd_row_to_note_fields(df[i], cfg.columns_to_note_fields) ]
        missing == { i \in 1..Len(df) : cfg.index_field \notin DOMAIN mapped[i] }
    IN  IF missing = { }
        THEN mapped
        ELSE SubSeq(mapped, 1, (CHOOSE i \in missing : \A j \in missing : i <= j) - 1)

\* csv: list(filter(index_field in f, map(pd_row_to_note_fields, rows)))
csv_fields_to_upload(df, cfg) ==
    LET mapped == [ i \in 1..Len(df) |->
                      pd_row_to_note_fields(df[i], cfg.columns_to_note_fields) ]
        has_index(f) == cfg.index_field \in DOMAIN f
    IN  SelectSeq(mapped, has_index)

\* classical: one fields dict per row
classical_fields_to_upload(df, cfg) ==
    [ i \in 1..Len(df) |-> classical_fields(df[i], cfg.columns_to_note_fields) ]

\* variant of duplicate_scan: a value is compared with the previous note's only
RECURSIVE duplicate_scan_adjacent(_, _, _)
duplicate_scan_adjacent(fields_seq, index_field, index_field_seen) ==
    IF fields_seq = << >>
    THEN FALSE
    ELSE IF Head(fields_seq)[index_field] \in index_field_seen
         THEN TRUE
         ELSE duplicate_scan_adjacent(Tail(fields_seq), index_field,
                                      { Head(fields_seq)[index_field] })

\* csv: the duplicate scan; TRUE when sys.exit(1) is reached
RECURSIVE duplicate_scan(_, _, _)
duplicate_scan(fields_seq, index_field, index_field_seen) ==
    IF fields_seq = << >>
    THEN FALSE
    ELSE IF Head(fields_seq)[index_field] \in index_field_seen
         THEN TRUE
         ELSE duplicate_scan(Tail(fields_seq), index_field,
                             index_field_seen \cup { Head(fields_seq)[index_field] })

\* variant of duplicate_exit: the scan runs whatever allow_duplicates says
duplicate_exit_always(fields_seq, cfg) ==
    duplicate_scan(fields_seq, cfg.index_field, { })

duplicate_exit(fields_seq, cfg) ==
    /\ ~cfg.allow_duplicates
    /\ duplicate_scan(fields_seq, cfg.index_field, { })

\* the JSON note built from one fields dict
Note(cfg, fields, allow_duplicate) ==
    [ deckName |-> cfg.deck_name, modelName |-> cfg.note_type, fields |-> fields,
      options |-> [ allowDuplicate |-> allow_duplicate ], tags |-> << >> ]

build_notes(s, cfg, fields_seq) ==
    [ i \in 1..Len(fields_seq) |->
        Note(cfg, fields_seq[i],
             IF s = "csv" THEN cfg.allow_duplicates ELSE FALSE) ]

-----------------------------------------------------------------------------
(* The AnkiConnect service: the responses post_anki may receive *)

Response(status, error, result) == [ status |-> status, error |-> error, result |-> result ]

Errors == { None, "error" }

VersionResponses ==
    { Response(200, e, r) : e \in Errors,
                            r \in { ANKI_VERSION_NUMBER, ANKI_VERSION_NUMBER - 1 } }
    \cup { Response(500, None, ANKI_VERSION_NUMBER) }

NameResponses(name) ==
    { Response(200, e, r) : e \in Errors, r \in { { "Default", name }, { "Default" } } }
    \cup { Response(500, None, { "Default" }) }

\* one boolean per note of the batch
CanAddNotesResponses(notes_batch) ==
    { Response(200, e, r) : e \in Errors, r \in [ 1..Len(notes_batch) -> BOOLEAN ] }
    \cup { Response(500, None, << >>) }

\* one note id, or None, per note of the batch; status 300 is outside 2xx and
\* not raised for either
AddNotesResponses(notes_batch) ==
    { Response(200, e, r) : e \in Errors, r \in [ 1..Len(notes_batch) -> { "id", None } ] }
    \cup { Response(500, None, << >>),
           Response(300, None, [ k \in 1..Len(notes_batch) |-> "id" ]) }

\* variant of raise_for_status: every status outside 2xx raises
raise_for_status_non_2xx(resp) == resp.status \notin 200..299

\* resp.raise_for_status() raises HTTPError: 400 <= status_code < 600
raise_for_status(resp) == resp.status >= 400 /\ resp.status < 600

\* the entry post_anki leaves in the transport log
Call(action, notes, resp) == [ action |-> action, notes |-> notes, response |-> resp ]

\* sum(xs) of a sequence of booleans
RECURSIVE CountTrue(_)
CountTrue(xs) ==
    IF xs = << >> THEN 0 ELSE (IF Head(xs) THEN 1 ELSE 0) + CountTrue(Tail(xs))

\* all(xs)
all(xs) == \A i \in 1..Len(xs) : xs[i]

-----------------------------------------------------------------------------
(* The checks main() makes on each response *)

\* variant of version_check_ok: the result is not compared with 6
version_check_error_only(resp) == resp.error = None

\* assert version_check['error'] is None; assert version_check['result'] == 6
version_check_ok(resp) == resp.error = None /\ resp.result = ANKI_VERSION_NUMBER

\* variant of deck_check_ok: membership of the deck is not asserted
deck_check_error_only(resp, deck_name) == resp.error = None

\* assert deck_check['error'] is None; assert deck_name in deck_check['result']
deck_check_ok(resp, deck_name) == resp.error = None /\ deck_name \in resp.result

\* assert note_type_check['error'] is None; assert note_type in note_type_check['result']
note_type_check_ok(resp, note_type) == resp.error = None /\ note_type \in resp.result

\* assert can_add_notes_check['error'] is None
can_add_notes_error_ok(resp) == resp.error = None

\* all(can_add_notes_check['result']): asserted by classical, tested by csv
can_add_notes_all_valid(resp) == all(resp.result)

\* csv: [result is not None for result in add_notes_resp['result']]
notes_batch_outcomes(resp) == [ i \in 1..Len(resp.result) |-> resp.result[i] # None ]

\* classical: sum(result is None for result in add_notes_resp['result'])
num_failures(resp) == CountTrue([ i \in 1..Len(resp.result) |-> resp.result[i] = None ])

\* `not result` for an entry of an addNotes result (a note id is a non-zero integer)
falsy(result) == result = None

-----------------------------------------------------------------------------
(* Output lines that report a failure *)

Line(text, payload) == [ text |-> text, payload |-> payload ]

\* csv, lines 151-153: the fields of every note canAddNotes rejected
failed_note_fields_lines(notes_batch, result) ==
    LET both == Min(Len(notes_batch), Len(result))
        idx == SelectSeq([ i \in 1..both |-> i ], LAMBDA i : ~result[i])
    IN  [ k \in 1..Len(idx) |-> Line("Failed Note Fields", notes_batch[idx[k]].fields) ]

\* classical, lines 126-128: zip(notes_to_upload, add_notes_resp['result'])
classical_failed_note_lines(notes, result) ==
    LET both == Min(Len(notes), Len(result))
        idx == SelectSeq([ i \in 1..both |-> i ], LAMBDA i : falsy(result[i]))
    IN  [ k \in 1..Len(idx) |-> Line("Note", notes[idx[k]]) ]

\* lines 168-169 / 121-122: a non-null error of addNotes is printed
add_notes_error_lines(resp) ==
    IF resp.error # None THEN << Line("Error adding notes", resp.error) >> ELSE << >>

-----------------------------------------------------------------------------
(* Control flow of main() *)

\* an uncaught exception or sys.exit(1): the process ends with status 1
Fatal(kind) ==
    /\ pc' = "fatal"
    /\ exit_status' = 1
    /\ error_kind' = kind

\* main() goes on to `next`; falling off its end is exit status 0
Continue(next) ==
    /\ pc' = next
    /\ exit_status' = IF next = "done" THEN 0 ELSE exit_status
    /\ error_kind' = error_kind

\* the batches a for loop over chunk(notes_to_upload, n) walks through
Batches == chunk(notes_to_upload, batch_size)

\* variant of after_batch: the first loop stops one batch early
after_batch_skips_last_preflight(phase, done, total) ==
    IF phase = "canAddNotes"
    THEN (IF done + 1 < total THEN phase ELSE IF total > 0 THEN "addNotes" ELSE "done")
    ELSE (IF done < total THEN phase ELSE "done")

\* variant of after_batch: both loops share one generator, which the first exhausts
after_batch_shared_generator(phase, done, total) ==
    IF done < total THEN phase ELSE "done"

\* where main() stands once `done` of the `total` batches of a loop are consumed
after_batch(phase, done, total) ==
    IF done < total THEN phase
    ELSE IF phase = "canAddNotes" /\ total > 0 THEN "addNotes"
    ELSE "done"

\* variant of next_batch_idx: the second loop starts at the second batch
next_batch_idx_resumes(done, total) ==
    IF done < total THEN done ELSE IF total > 1 THEN 1 ELSE 0

\* the batch index of the loop main() stands in after that
next_batch_idx(done, total) == IF done < total THEN done ELSE 0

\* variant of csv_preflight_exits: the rejection is printed without sys.exit(1)
csv_preflight_only_prints(resp) == FALSE

\* csv pre-flight, lines 150-155: a rejected note ends the run with sys.exit(1)
csv_preflight_exits(resp) == ~can_add_notes_all_valid(resp)

\* variant of classical_preflight_assert_fails: the assertion on all(result) is absent
classical_preflight_no_assert(resp) == FALSE

\* classical pre-flight, line 109: the assertion on all(result) fails
classical_preflight_assert_fails(resp) == ~can_add_notes_all_valid(resp)

\* csv commit, line 174: the f-string names num_failures, which main() never binds
csv_failure_report_raises(resp) ==
    Len(resp.result) - CountTrue(notes_batch_outcomes(resp)) > 0

Init ==
    /\ script \in Scripts
    /\ batch_size \in 1..MaxBatchSize
    /\ pc = IF script = "csv" THEN "parse_config" ELSE "version"
    /\ exit_status = -1
    /\ error_kind = None
    /\ config = NoConfig
    /\ df_input = << >>
    /\ fields_to_upload = << >>
    /\ notes_to_upload = << >>
    /\ calls = << >>
    /\ batch_idx = 0
    /\ notes_added_num_successes = 0
    /\ notes_added_num_failures = 0
    /\ printed = << >>

\* csv: argparse runs parse_config on the -c argument before anything else
ParseConfig ==
    /\ script = "csv"
    /\ pc = "parse_config"
    /\ \E d \in Configs("csv") :
         /\ config' = d
         /\ IF parse_config_ok(d) THEN Continue("version") ELSE Fatal("AssertionError")
    /\ UNCHANGED << script, batch_size, df_input, fields_to_upload, notes_to_upload,
                    calls, batch_idx, notes_added_num_successes,
                    notes_added_num_failures, printed >>

\* both: the liveness call
Version ==
    /\ pc = "version"
    /\ \E resp \in VersionResponses :
         /\ calls' = Append(calls, Call("version", << >>, resp))
         /\ IF raise_for_status(resp) THEN Fatal("HTTPError")
            ELSE IF ~version_check_ok(resp) THEN Fatal("AssertionError")
            ELSE Continue(IF script = "csv" THEN "deckNames" ELSE "load_config")
    /\ UNCHANGED << script, batch_size, config, df_input, fields_to_upload,
                    notes_to_upload, batch_idx, notes_added_num_successes,
                    notes_added_num_failures, printed >>

\* classical: the configuration file is read after the liveness call
LoadConfig ==
    /\ script = "classical"
    /\ pc = "load_config"
    /\ \E d \in Configs("classical") :
         /\ config' = d
         /\ IF assert_key_in_dict("deck_name", d) /\ assert_key_in_dict("note_type", d)
            THEN Continue("deckNames")
            ELSE Fatal("AssertionError")
    /\ UNCHANGED << script, batch_size, df_input, fields_to_upload, notes_to_upload,
                    calls, batch_idx, notes_added_num_successes,
                    notes_added_num_failures, printed >>

\* both: the deck must exist
DeckNames ==
    /\ pc = "deckNames"
    /\ \E resp \in NameResponses(config.deck_name) :
         /\ calls' = Append(calls, Call("deckNames", << >>, resp))
         /\ IF raise_for_status(resp) THEN Fatal("HTTPError")
            ELSE IF ~deck_check_ok(resp, config.deck_name) THEN Fatal("AssertionError")
            ELSE Continue("modelNames")
    /\ UNCHANGED << script, batch_size, config, df_input, fields_to_upload,
                    notes_to_upload, batch_idx, notes_added_num_successes,
                    notes_added_num_failures, printed >>

\* both: the note type must exist
ModelNames ==
    /\ pc = "modelNames"
    /\ \E resp \in NameResponses(config.note_type) :
         /\ calls' = Append(calls, Call("modelNames", << >>, resp))
         /\ IF raise_for_status(resp) THEN Fatal("HTTPError")
            ELSE IF ~note_type_check_ok(resp, config.note_type) THEN Fatal("AssertionError")
            ELSE Continue(IF script = "csv" THEN "load" ELSE "mapping_config")
    /\ UNCHANGED << script, batch_size, config, df_input, fields_to_upload,
                    notes_to_upload, batch_idx, notes_added_num_successes,
                    notes_added_num_failures, printed >>

\* classical: the column -> field table is looked up after the three set-up calls
MappingConfig ==
    /\ script = "classical"
    /\ pc = "mapping_config"
    /\ IF assert_key_in_dict("csv_columns_to_note_fields", config)
       THEN Continue("load")
       ELSE Fatal("AssertionError")
    /\ UNCHANGED << script, batch_size, config, df_input, fields_to_upload,
                    notes_to_upload, calls, batch_idx, notes_added_num_successes,
                    notes_added_num_failures, printed >>

\* both: read the CSV (which may fail), map every row, (csv) filter and scan for duplicates, build the notes
Load ==
    /\ pc = "load"
    /\ \/ /\ Fatal(read_csv_error(script))
          /\ UNCHANGED << df_input, fields_to_upload, notes_to_upload >>
       \/ \E df \in DataFrames :
            /\ df_input' = df
            /\ IF loc_raises(df, config.columns_to_note_fields)
               THEN /\ Fatal("KeyError")
                    /\ UNCHANGED << fields_to_upload, notes_to_upload >>
               ELSE LET fields_seq ==
                            IF script = "csv"
                            THEN csv_fields_to_upload(df, config)
                            ELSE classical_fields_to_upload(df, config)
                        notes == build_notes(script, config, fields_seq)
                    IN  /\ fields_to_upload' = fields_seq
                        /\ IF script = "csv" /\ duplicate_exit(fields_seq, config)
                           THEN /\ Fatal("SystemExit")
                                /\ UNCHANGED notes_to_upload
                           ELSE /\ notes_to_upload' = notes
                                /\ Continue(after_batch("canAddNotes", 0,
                                                        Len(chunk(notes, batch_size))))
    /\ UNCHANGED << script, batch_size, config, calls, batch_idx,
                    notes_added_num_successes, notes_added_num_failures, printed >>

\* both: one pre-flight call for the next batch of the first for loop
CanAddNotes ==
    /\ pc = "canAddNotes"
    /\ LET notes_batch == Batches[batch_idx + 1]
       IN  \E resp \in CanAddNotesResponses(notes_batch) :
             /\ calls' = Append(calls, Call("canAddNotes", notes_batch, resp))
             /\ IF raise_for_status(resp)
                THEN Fatal("HTTPError") /\ UNCHANGED << batch_idx, printed >>
                ELSE IF ~can_add_notes_error_ok(resp)
                THEN Fatal("AssertionError") /\ UNCHANGED << batch_idx, printed >>
                ELSE IF script = "csv" /\ csv_preflight_exits(resp)
                THEN /\ printed' = printed \o failed_note_fields_lines(notes_batch, resp.result)
                     /\ Fatal("SystemExit")
                     /\ UNCHANGED batch_idx
                ELSE IF script = "classical" /\ classical_preflight_assert_fails(resp)
                THEN Fatal("AssertionError") /\ UNCHANGED << batch_idx, printed >>
                ELSE /\ Continue(after_batch("canAddNotes", batch_idx + 1, Len(Batches)))
                     /\ batch_idx' = next_batch_idx(batch_idx + 1, Len(Batches))
                     /\ UNCHANGED printed
    /\ UNCHANGED << script, batch_size, config, df_input, fields_to_upload,
                    notes_to_upload, notes_added_num_successes,
                    notes_added_num_failures >>

\* both: one commit call for the next batch of the second for loop
AddNotes ==
    /\ pc = "addNotes"
    /\ LET notes_batch == Batches[batch_idx + 1]
       IN  \E resp \in AddNotesResponses(notes_batch) :
             /\ calls' = Append(calls, Call("addNotes", notes_batch, resp))
             /\ IF raise_for_status(resp)
                THEN /\ Fatal("HTTPError")
                     /\ UNCHANGED << batch_idx, printed, notes_added_num_successes,
                                     notes_added_num_failures >>
                ELSE IF script = "csv"
                THEN IF csv_failure_report_raises(resp)
                     THEN /\ printed' = printed \o add_notes_error_lines(resp)
                          /\ Fatal("NameError")
                          /\ UNCHANGED << batch_idx, notes_added_num_successes,
                                          notes_added_num_failures >>
                     ELSE /\ printed' = printed \o add_notes_error_lines(resp)
                          /\ notes_added_num_successes' =
                                 notes_added_num_successes
                                 + CountTrue(notes_batch_outcomes(resp))
                          /\ notes_added_num_failures' =
                                 notes_added_num_failures
                                 + (Len(notes_batch_outcomes(resp))
                                    - CountTrue(notes_batch_outcomes(resp)))
                          /\ Continue(after_batch("addNotes", batch_idx + 1, Len(Batches)))
                          /\ batch_idx' = next_batch_idx(batch_idx + 1, Len(Batches))
                ELSE /\ printed' =
                            printed \o add_notes_error_lines(resp)
                            \o (IF num_failures(resp) > 0
                                THEN classical_failed_note_lines(notes_to_upload, resp.result)
                                ELSE << >>)
                     /\ Continue(after_batch("addNotes", batch_idx + 1, Len(Batches)))
                     /\ batch_idx' = next_batch_idx(batch_idx + 1, Len(Batches))
                     /\ UNCHANGED << notes_added_num_successes, notes_added_num_failures >>
    /\ UNCHANGED << script, batch_size, config, df_input, fields_to_upload,
                    notes_to_upload >>

Next ==
    \/ ParseConfig
    \/ Version
    \/ LoadConfig
    \/ DeckNames
    \/ ModelNames
    \/ MappingConfig
    \/ Load
    \/ CanAddNotes
    \/ AddNotes

Spec == Init /\ [][Next]_vars

-----------------------------------------------------------------------------
(* Vocabulary of the properties: what the transport log shows *)

CallIndices == 1..Len(calls)

CallsOf(action) == { i \in CallIndices : calls[i].action = action }

\* the answer to call i reached main() (no HTTPError)
Answered(i) == calls[i].response.status \notin 400..599

\* the answer to call i is what main() requires before it goes on
Succeeded(i) ==
    LET c == calls[i]
        r == c.response
    IN  /\ Answered(i)
        /\ r.error = None
        /\ CASE c.action = "version" -> r.result = 6
             [] c.action = "deckNames" -> DeckName \in r.result
             [] c.action = "modelNames" -> NoteType \in r.result
             [] c.action = "canAddNotes" -> \A k \in 1..Len(r.result) : r.result[k]
             [] OTHER -> TRUE

\* a canAddNotes answer with error null and a false entry
Rejected(i) ==
    /\ calls[i].action = "canAddNotes"
    /\ Answered(i)
    /\ calls[i].response.error = None
    /\ \E k \in 1..Len(calls[i].response.result) : ~calls[i].response.result[k]

\* an addNotes answer with a null entry
HasNullEntry(i) ==
    /\ calls[i].action = "addNotes"
    /\ Answered(i)
    /\ \E k \in 1..Len(calls[i].response.result) : calls[i].response.result[k] = None

Aborted == pc = "fatal" /\ exit_status = 1

\* the concatenation of a sequence of sequences
RECURSIVE Concat(_)
Concat(ss) == IF ss = << >> THEN << >> ELSE Head(ss) \o Concat(Tail(ss))

-----------------------------------------------------------------------------
(* C1 *)

\* C1: the calls of a run are, in this order, version, deckNames, modelNames, one
\* canAddNotes per batch in batch order, one addNotes per batch in batch order, and
\* every call follows a call whose answer was accepted (for a call after an addNotes:
\* answered).  Hence the first addNotes comes after the accepted canAddNotes of every
\* batch, the last included, and the first canAddNotes after the three successful
\* set-up calls.
C1_CallOrder ==
    LET batches == Batches
        nb == Len(batches)
    IN  /\ Len(calls) <= 3 + 2 * nb
        /\ \A i \in CallIndices :
               /\ calls[i].action =
                      (IF i = 1 THEN "version"
                       ELSE IF i = 2 THEN "deckNames"
                       ELSE IF i = 3 THEN "modelNames"
                       ELSE IF i <= 3 + nb THEN "canAddNotes"
                       ELSE "addNotes")
               /\ (i > 3 /\ i <= 3 + nb) => calls[i].notes = batches[i - 3]
               /\ i > 3 + nb => calls[i].notes = batches[i - 3 - nb]
               /\ i > 1 =>
                      IF calls[i - 1].action = "addNotes"
                      THEN Answered(i - 1)
                      ELSE Succeeded(i - 1)

\* a complete classical run over three batches
C1_Witness ==
    /\ script = "classical"
    /\ pc = "done"
    /\ Len(Batches) = 3
    /\ Len(calls) = 9

-----------------------------------------------------------------------------
(* C2 *)

\* C2: when the answer to the version call has a non-null error or a result other
\* than 6, the run is aborted and the version call stays the only call of the run.
C2_VersionFailureStopsRun ==
    (/\ Len(calls) >= 1
     /\ Answered(1)
     /\ (calls[1].response.error # None \/ calls[1].response.result # 6))
    => (Aborted /\ Len(calls) = 1)

\* the service answers with another version and no error
C2_Witness ==
    /\ Len(calls) = 1
    /\ Answered(1)
    /\ calls[1].response.error = None
    /\ calls[1].response.result # 6
    /\ Aborted

-----------------------------------------------------------------------------
(* C3 *)

\* the answer to call i reports an error or lacks the configured name
SetupCheckFails(i) ==
    /\ Answered(i)
    /\ \/ /\ calls[i].action = "deckNames"
          /\ (calls[i].response.error # None \/ config.deck_name \notin calls[i].response.result)
       \/ /\ calls[i].action = "modelNames"
          /\ (calls[i].response.error # None \/ config.note_type \notin calls[i].response.result)

\* C3: when the deckNames or the modelNames answer has a non-null error or lacks
\* the configured name, the run is aborted and that call is the last of the run: no
\* canAddNotes and no addNotes follows, and no modelNames follows a failed deckNames.
C3_SetupFailureStopsRun ==
    \A i \in CallIndices :
        SetupCheckFails(i) =>
            /\ Aborted
            /\ i = Len(calls)
            /\ CallsOf("canAddNotes") = { }
            /\ CallsOf("addNotes") = { }
            /\ (calls[i].action = "deckNames" => CallsOf("modelNames") = { })

\* the deck is missing from an error-free deckNames answer
C3_Witness ==
    /\ Len(calls) = 2
    /\ calls[2].action = "deckNames"
    /\ Answered(2)
    /\ calls[2].response.error = None
    /\ config.deck_name \notin calls[2].response.result
    /\ Aborted

-----------------------------------------------------------------------------
(* C4 *)

\* the configuration file has been read and lacks a key its script requires
MissingKeys == IF config = NoConfig THEN { } ELSE RequiredKeys(script) \ config.keys

\* C4 as stated: a configuration lacking a required key aborts the run before any
\* network call at all, in both scripts.
C4_NoCallBeforeConfigError == (MissingKeys # { } /\ pc = "fatal") => calls = << >>

\* C4 as amended: a configuration lacking a required key never lets the run reach the
\* loading of the rows, so no canAddNotes and no addNotes call is issued.  The csv
\* script aborts before any call.  The classical script has issued the version call
\* when it aborts on a missing deck_name or note_type, and issues version, deckNames
\* and modelNames before it aborts on a missing csv_columns_to_note_fields.
C4_ConfigErrorBeforeUpload ==
    MissingKeys # { } =>
        /\ CallsOf("canAddNotes") = { }
        /\ CallsOf("addNotes") = { }
        /\ pc \notin { "load", "canAddNotes", "addNotes", "done" }
        /\ script = "csv" => (Aborted /\ calls = << >>)
        /\ (script = "classical" /\ MissingKeys \cap { "deck_name", "note_type" } # { }) =>
               (Aborted /\ Len(calls) = 1 /\ calls[1].action = "version")
        /\ (script = "classical" /\ MissingKeys = { "csv_columns_to_note_fields" }) =>
               /\ Len(calls) <= 3
               /\ pc \in { "deckNames", "modelNames", "mapping_config", "fatal" }
               /\ (pc = "fatal" /\ Len(calls) = 3 /\ Succeeded(3)) =>
                      error_kind = "AssertionError"

\* classical: the table key is found missing after three successful calls
C4_Witness ==
    /\ script = "classical"
    /\ MissingKeys = { "csv_columns_to_note_fields" }
    /\ Aborted
    /\ Len(calls) = 3
    /\ \A j \in 1..3 : Succeeded(j)

-----------------------------------------------------------------------------
(* C5 *)

\* two notes of the run-level sequence carry the same index-field value
SharedIndexValue(fields_seq, index_field) ==
    \E i, j \in 1..Len(fields_seq) :
        /\ i # j
        /\ fields_seq[i][index_field] = fields_seq[j][index_field]

\* C5: in the csv script, when allow_duplicates is false and two notes of the
\* run-level sequence share their index-field value, the run exits with status 1 and
\* neither a canAddNotes nor an addNotes call is issued, wherever the two notes are.
C5_DuplicateIndexAborts ==
    (/\ script = "csv"
     /\ ~config.allow_duplicates
     /\ SharedIndexValue(fields_to_upload, config.index_field))
    => /\ Aborted
       /\ error_kind = "SystemExit"
       /\ CallsOf("canAddNotes") = { }
       /\ CallsOf("addNotes") = { }

\* the first and the third note share the value, the second differs: with batches
\* of two the duplicates would have been sent in different batches
C5_Witness ==
    /\ script = "csv"
    /\ ~config.allow_duplicates
    /\ batch_size = 2
    /\ Len(fields_to_upload) = 3
    /\ fields_to_upload[1][config.index_field] = fields_to_upload[3][config.index_field]
    /\ fields_to_upload[1][config.index_field] # fields_to_upload[2][config.index_field]
    /\ Aborted
    /\ error_kind = "SystemExit"

-----------------------------------------------------------------------------
(* C6 *)

\* C6: once the canAddNotes answer of any batch holds a false entry, the run is
\* aborted and no addNotes call has been issued for any batch.
C6_RejectedPreflightNoCommit ==
    (\E i \in CallIndices :
        /\ calls[i].action = "canAddNotes"
        /\ Answered(i)
        /\ \E k \in 1..Len(calls[i].response.result) : ~calls[i].response.result[k])
    => (Aborted /\ CallsOf("addNotes") = { })

\* the last of three batches is rejected after the first two were accepted
C6_Witness ==
    /\ Len(Batches) = 3
    /\ Len(calls) = 6
    /\ Succeeded(4)
    /\ Succeeded(5)
    /\ Rejected(6)
    /\ Aborted

-----------------------------------------------------------------------------
(* C7 *)

\* C7 as stated, for the flow whose pre-flight check is an assertion: a false entry in
\* an error-free canAddNotes answer leaves the run going.
C7_LenientFlowContinues ==
    \A i \in CallIndices : (script = "classical" /\ Rejected(i)) => pc # "fatal"

\* C7 as amended: neither flow is lenient.  A false entry in an error-free
\* canAddNotes answer ends the run at that call: the csv script prints the fields of
\* the rejected notes and exits with status 1, the classical script fails its
\* assertion; no later batch is pre-flighted and no addNotes call is issued.
C7_BothFlowsStrict ==
    \A i \in CallIndices :
        Rejected(i) =>
            /\ i = Len(calls)
            /\ Aborted
            /\ error_kind = (IF script = "csv" THEN "SystemExit" ELSE "AssertionError")
            /\ script = "csv" =>
                   Len(printed) =
                       Cardinality({ k \in 1..Len(calls[i].response.result) :
                                       ~calls[i].response.result[k] })
            /\ script = "classical" => printed = << >>

\* the classical run is ended by a rejection in its first batch, others pending
C7_Witness ==
    /\ script = "classical"
    /\ Len(Batches) >= 2
    /\ Len(calls) = 4
    /\ Rejected(4)
    /\ Aborted

-----------------------------------------------------------------------------
(* C8 *)

\* C8: a null entry in an addNotes answer does not end the run: the call is followed
\* by the addNotes call of the next batch, or by a normal end with exit status 0.
C8_NullEntriesNotFatal ==
    \A i \in CallIndices :
        HasNullEntry(i) =>
            /\ i = Len(calls) => pc \in { "addNotes", "done" }
            /\ pc = "done" => exit_status = 0

-----------------------------------------------------------------------------
(* C9 *)

\* C9: a non-null error on an addNotes answer that still carries its result
\* sequence does not end the run: the next batch's addNotes call follows, or the
\* normal end of the run.
C9_AddNotesErrorNotFatal ==
    \A i \in CallIndices :
        (/\ calls[i].action = "addNotes"
         /\ Answered(i)
         /\ calls[i].response.error # None
         /\ i = Len(calls))
        => pc \in { "addNotes", "done" }

-----------------------------------------------------------------------------
(* C10 *)

\* the rows are read and the notes built after the third call and before the
\* fourth, and neither changes afterwards
InputsJustSet == Len(calls) = 3

\* C10: for every batch size n >= 1, the batches chunk emits for the rows read and
\* for the notes built (looked at when they are set) concatenate, in emission order,
\* to the input itself; and the batches the run has sent to canAddNotes are a prefix
\* of the notes, the whole of them once the pre-flight loop is over.
C10_ChunkIsLosslessPartition ==
    /\ InputsJustSet =>
           \A n \in 1..(MaxRows + 1) :
               /\ Concat(chunk(notes_to_upload, n)) = notes_to_upload
               /\ Concat(chunk(df_input, n)) = df_input
    /\ LET sent == Concat([ k \in 1..Cardinality(CallsOf("canAddNotes")) |->
                              calls[3 + k].notes ])
       IN  /\ sent = SubSeq(notes_to_upload, 1, Len(sent))
           /\ pc \in { "addNotes", "done" } => sent = notes_to_upload

\* three different notes were sent as a batch of two and a batch of one
C10_Witness ==
    /\ pc = "done"
    /\ batch_size = 2
    /\ Len(notes_to_upload) = 3
    /\ Len(Batches) = 2
    /\ Len(Batches[2]) = 1
    /\ notes_to_upload[1] # notes_to_upload[2]
    /\ notes_to_upload[2] # notes_to_upload[3]

-----------------------------------------------------------------------------
(* C11 *)

\* ceil(a / b) for b >= 1
CeilDiv(a, b) == (a + b - 1) \div b

\* the batches of `input` for batch size n: their number and their sizes
BatchShape(input, n) ==
    LET batches == chunk(input, n)
        count == Len(batches)
    IN  /\ count = CeilDiv(Len(input), n)
        /\ \A k \in 1..count :
               /\ Len(batches[k]) >= 1
               /\ Len(batches[k]) <= n
               /\ k < count => Len(batches[k]) = n

\* C11: for every batch size n >= 1, chunk ends after ceil(N / n) batches for the N
\* rows read and for the N notes built (looked at when they are set), every batch
\* but the last holds n items, the last between 1 and n, none is empty; a run with
\* no note to upload ends normally with neither a canAddNotes nor an addNotes call,
\* and a finished run has made ceil(N / n) calls of each.
C11_BatchCountAndSizes ==
    /\ InputsJustSet =>
           \A n \in 1..(MaxRows + 1) :
               BatchShape(notes_to_upload, n) /\ BatchShape(df_input, n)
    /\ notes_to_upload = << >> =>
           (CallsOf("canAddNotes") = { } /\ CallsOf("addNotes") = { })
    /\ pc = "done" =>
           /\ Cardinality(CallsOf("canAddNotes")) = CeilDiv(Len(notes_to_upload), batch_size)
           /\ Cardinality(CallsOf("addNotes")) = CeilDiv(Len(notes_to_upload), batch_size)

\* the csv script has sent three notes as a full batch of two and a last batch of one
C11_Witness ==
    /\ script = "csv"
    /\ pc = "done"
    /\ Len(notes_to_upload) = 3
    /\ Len(Batches) = 2
    /\ Len(Batches[1]) = 2
    /\ Len(Batches[2]) = 1
    /\ Cardinality(CallsOf("addNotes")) = 2

-----------------------------------------------------------------------------
(* C12 *)

\* a cell that is missing, or blank once trimmed
Blank(raw_value) == ~notnull(raw_value) \/ strip(str(raw_value)) = << >>

\* the Field Mapper's output for each row read: the classical script's
\* fields_to_upload, and what the csv script maps before it filters
MapperOutputs ==
    IF script = "classical"
    THEN fields_to_upload
    ELSE [ i \in 1..Len(df_input) |->
             pd_row_to_note_fields(df_input[i], config.columns_to_note_fields) ]

\* C12: in both scripts the mapper's output for a row has no entry for a field
\* whose source cells are all missing or blank, and every entry it has is a
\* non-empty, trimmed string.
C12_MapperOmitsBlankCells ==
    (/\ df_input # << >>
     /\ ~loc_raises(df_input, config.columns_to_note_fields)
     /\ Len(MapperOutputs) = Len(df_input))
    => \A i \in 1..Len(df_input) :
           LET table == config.columns_to_note_fields
               out == MapperOutputs[i]
               sources(f) == { k \in 1..Len(table) : table[k].field = f }
           IN  /\ \A k \in 1..Len(table) :
                      (\A j \in sources(table[k].field) : Blank(df_input[i][table[j].column]))
                      => table[k].field \notin DOMAIN out
               /\ \A f \in DOMAIN out :
                      out[f] # << >> /\ strip(out[f]) = out[f]

-----------------------------------------------------------------------------
(* C13 *)

\* the csv script has read a frame whose rows it could map
CsvRowsMapped ==
    /\ script = "csv"
    /\ df_input # << >>
    /\ ~loc_raises(df_input, config.columns_to_note_fields)

\* the fields dicts of seq that have the index field, in the order of seq
RECURSIVE KeepWithIndex(_, _)
KeepWithIndex(seq, index_field) ==
    IF seq = << >>
    THEN << >>
    ELSE (IF index_field \in DOMAIN Head(seq) THEN << Head(seq) >> ELSE << >>)
         \o KeepWithIndex(Tail(seq), index_field)

\* C13: in the csv script a row whose mapped fields lack the index field is left
\* out and nothing else changes: the run-level sequence is the mapped rows that have
\* the index field, in row order; every note of every canAddNotes and addNotes
\* payload has the index field; and a run that ends after the frame is read, before
\* any upload call, ends on a repeated index value, never on the missing field.
C13_MissingIndexSilentlyExcluded ==
    CsvRowsMapped =>
        /\ fields_to_upload = KeepWithIndex(MapperOutputs, config.index_field)
        /\ \A i \in CallsOf("canAddNotes") \cup CallsOf("addNotes") :
               \A k \in 1..Len(calls[i].notes) :
                   config.index_field \in DOMAIN calls[i].notes[k].fields
        /\ (pc = "fatal" /\ Len(calls) = 3 /\ Succeeded(3)) =>
               /\ error_kind = "SystemExit"
               /\ SharedIndexValue(fields_to_upload, config.index_field)

\* the second of three rows lacks the index field; the first and the third were
\* uploaded as one batch
C13_Witness ==
    /\ CsvRowsMapped
    /\ pc = "done"
    /\ Len(df_input) = 3
    /\ config.index_field \notin DOMAIN MapperOutputs[2]
    /\ Len(notes_to_upload) = 2
    /\ notes_to_upload[1] # notes_to_upload[2]
    /\ CallsOf("addNotes") # { }

-----------------------------------------------------------------------------
(* C14 *)

\* the run ended at the duplicate scan
DuplicateExit ==
    /\ Aborted
    /\ error_kind = "SystemExit"
    /\ Len(calls) = 3

\* C14 as stated: in the csv script with allow_duplicates true, every mapped row is
\* passed on to the upload, the rows that lack the index field included.
C14_AllowDuplicatesPassesEveryRow ==
    (CsvRowsMapped /\ config.allow_duplicates)
    => /\ fields_to_upload = MapperOutputs
       /\ Len(notes_to_upload) = Len(df_input)

\* C14, amended: in the csv script only the abort on a repeated index value depends
\* on allow_duplicates; the rows that lack the index field are left out in both
\* modes.  With allow_duplicates true the run never ends at the duplicate scan and
\* one note is built for every mapped row that has the index field, repeated values
\* included; with allow_duplicates false the run ends at the scan exactly when two
\* of the kept rows share their index value.
C14_OnlyTheAbortDependsOnAllowDuplicates ==
    CsvRowsMapped =>
        LET kept == KeepWithIndex(MapperOutputs, config.index_field)
        IN  /\ fields_to_upload = kept
            /\ DuplicateExit <=>
                   (~config.allow_duplicates /\ SharedIndexValue(kept, config.index_field))
            /\ config.allow_duplicates =>
                   /\ Len(notes_to_upload) = Len(kept)
                   /\ \A i \in 1..Len(kept) :
                          /\ notes_to_upload[i].fields = kept[i]
                          /\ notes_to_upload[i].options.allowDuplicate

\* allow_duplicates is true: a row without the index field was left out and two
\* notes with the same index value were uploaded
C14_Witness ==
    /\ CsvRowsMapped
    /\ config.allow_duplicates
    /\ pc = "done"
    /\ Len(df_input) = 3
    /\ Len(notes_to_upload) = 2
    /\ SharedIndexValue(fields_to_upload, config.index_field)
    /\ CallsOf("addNotes") # { }

-----------------------------------------------------------------------------
(* C15 *)

\* the entries of the answer to call i that are null (wanted = TRUE) or note ids
\* (wanted = FALSE); none unless call i is an answered addNotes
Entries(i, wanted) ==
    IF calls[i].action = "addNotes" /\ Answered(i)
    THEN Cardinality({ j \in 1..Len(calls[i].response.result) :
                         (calls[i].response.result[j] = None) = wanted })
    ELSE 0

\* the entries of either kind over the first k calls
RECURSIVE EntriesUpTo(_, _)
EntriesUpTo(k, wanted) ==
    IF k = 0 THEN 0 ELSE EntriesUpTo(k - 1, wanted) + Entries(k, wanted)

\* the notes submitted in the answered addNotes calls among the first k calls
RECURSIVE SubmittedUpTo(_)
SubmittedUpTo(k) ==
    IF k = 0
    THEN 0
    ELSE SubmittedUpTo(k - 1)
         + (IF calls[k].action = "addNotes" /\ Answered(k) THEN Len(calls[k].notes) ELSE 0)

\* C15: in the csv script, which keeps the running totals, once the answer to an
\* addNotes call is processed the success total is the number of note ids and the
\* failure total the number of null entries over all answers so far, and the two
\* add up to the notes submitted so far, whether or not a batch had a failure.
C15_RunningTotalsAccumulate ==
    script = "csv" =>
        /\ notes_added_num_successes = EntriesUpTo(Len(calls), FALSE)
        /\ notes_added_num_failures = EntriesUpTo(Len(calls), TRUE)
        /\ notes_added_num_successes + notes_added_num_failures = SubmittedUpTo(Len(calls))

-----------------------------------------------------------------------------
(* C16 *)

\* the response to call i is an HTTP failure as raise_for_status sees it: 4xx or 5xx
HttpFailure(i) == calls[i].response.status \in 400..599

\* C16 as stated: a call whose response has a status outside 2xx is the last call of
\* the run, and the run is aborted by the HTTPError.
C16_Non2xxIsFatal ==
    \A i \in CallIndices :
        calls[i].response.status \notin 200..299 =>
            /\ i = Len(calls)
            /\ Aborted
            /\ error_kind = "HTTPError"

\* C16, amended: an AnkiConnect call whose response has a status 4xx or 5xx is the
\* last call of the run, whichever of the five actions it is: the run is aborted by
\* the HTTPError at once, with exit status 1, the call is not issued again and no
\* other call follows; and a run ends with an HTTPError in this case only.  A status
\* outside 2xx is not fatal by itself: an addNotes answer with status 300 and a
\* well-formed body of note ids is processed like one with status 200, the run goes
\* on to the addNotes call of the next batch or, after the last batch, ends with
\* exit status 0.
C16_HttpFailureIsFatal ==
    /\ \A i \in CallIndices :
           HttpFailure(i) =>
               /\ i = Len(calls)
               /\ Aborted
               /\ error_kind = "HTTPError"
    /\ error_kind = "HTTPError" => (calls # << >> /\ HttpFailure(Len(calls)))
    /\ \A i \in CallsOf("addNotes") :
           calls[i].response.status = 300 =>
               IF i < 3 + 2 * Len(Batches)
               THEN \/ pc = "addNotes" /\ Len(calls) = i
                    \/ Len(calls) > i /\ calls[i + 1].action = "addNotes"
               ELSE pc = "done" /\ exit_status = 0 /\ Len(calls) = i

\* the addNotes call of the second batch fails with status 500 after the answer to
\* the first, which had status 300, was processed
C16_Witness ==
    /\ Len(Batches) = 2
    /\ Len(calls) = 7
    /\ calls[7].action = "addNotes"
    /\ HttpFailure(7)
    /\ calls[6].response.status = 300
    /\ Aborted

-----
(* C17 *)

\* C17 as stated: in both scripts and for every configured table, every note sent
\* in a canAddNotes or addNotes payload has at least one field.
C17_NoNoteWithoutFields ==
    \A i \in CallsOf("canAddNotes") \cup CallsOf("addNotes") :
        \A k \in 1..Len(calls[i].notes) :
            DOMAIN calls[i].notes[k].fields # { }

\* C17, amended: every note sent by the csv script has at least one field, whatever
\* the table, and so has every note sent by the classical script when the table has
\* an entry: then the note has a field for every entry of the table.  With an empty
\* table the classical script sends every row as a note without fields.
C17_NoteFieldsFollowTheTable ==
    \A i \in CallsOf("canAddNotes") \cup CallsOf("addNotes") :
        \A k \in 1..Len(calls[i].notes) :
            LET fields == calls[i].notes[k].fields
                table == config.columns_to_note_fields
            IN  IF script = "csv"
                THEN config.index_field \in DOMAIN fields
                ELSE /\ DOMAIN fields = { table[j].field : j \in 1..Len(table) }
                     /\ (table = << >>) = (DOMAIN fields = { })
                     /\ Len(notes_to_upload) = Len(df_input)

\* the classical script has uploaded three notes built from a table with entries
C17_Witness ==
    /\ script = "classical"
    /\ pc = "done"
    /\ config.columns_to_note_fields # << >>
    /\ Len(notes_to_upload) = 3
    /\ \A k \in 1..3 : DOMAIN notes_to_upload[k].fields # { }
    /\ CallsOf("addNotes") # { }

-----------------------------------------------------------------------------
(* C18 *)

\* the service has accepted everything: every call succeeded, every note was added
AlwaysSuccess ==
    \A i \in CallIndices : Succeeded(i) /\ ~HasNullEntry(i)

\* the notes a run of the same script computes from the same rows and configuration
RerunNotes ==
    build_notes(script, config,
                IF script = "csv"
                THEN csv_fields_to_upload(df_input, config)
                ELSE classical_fields_to_upload(df_input, config))

\* the k-th batch of such a run: the notes from (k - 1) * n + 1 to k * n
RerunBatch(k) ==
    SubSeq(RerunNotes, (k - 1) * batch_size + 1, Min(k * batch_size, Len(RerunNotes)))

\* C18: the batches a finished run has sent to a service that accepts everything
\* depend on the rows, the configuration and the batch size only: they are the
\* batches a run of the same script computes again from these, in the same order
\* in both loops, and the notes submitted are as many as that run builds.
C18_RerunSendsTheSameBatches ==
    (pc = "done" /\ AlwaysSuccess) =>
        LET nb == CeilDiv(Len(RerunNotes), batch_size)
        IN  /\ Len(calls) = 3 + 2 * nb
            /\ \A k \in 1..nb :
                   /\ calls[3 + k].notes = RerunBatch(k)
                   /\ calls[3 + nb + k].notes = RerunBatch(k)
            /\ SubmittedUpTo(Len(calls)) = Len(RerunNotes)

\* the classical script has uploaded three different rows in two batches, all accepted
C18_Witness ==
    /\ script = "classical"
    /\ pc = "done"
    /\ AlwaysSuccess
    /\ batch_size = 2
    /\ Len(df_input) = 3
    /\ df_input[1] # df_input[2]
    /\ df_input[2] # df_input[3]
    /\ Len(calls) = 7

-----------------------------------------------------------------------------
(* C19 *)

\* the positions of the null entries in the answer to call i, in order
NullPositions(i) ==
    SelectSeq([ j \in 1..Len(calls[i].response.result) |-> j ],
              LAMBDA j : calls[i].response.result[j] = None)

\* C19: in the classical script, once the answer to the addNotes call of a batch
\* with null entries is processed, the notes just reported as failed are the notes
\* of that batch at the positions of the null entries, in order, and no other note,
\* for the first batch and for every later one.
C19_FailedNoteIsTheBatchNote ==
    (/\ script = "classical"
     /\ calls # << >>
     /\ HasNullEntry(Len(calls)))
    => LET last == Len(calls)
           nulls == NullPositions(last)
           m == Len(nulls)
       IN  /\ Len(printed) >= m
           /\ \A j \in 1..m :
                  LET line == printed[Len(printed) - m + j]
                  IN  /\ line.text = "Note"
                      /\ line.payload = calls[last].notes[nulls[j]]

-----------------------------------------------------------------------------
(* C20 *)

\* the notes of the k-th call of an action, by position in the run
KthPayload(action, k) ==
    LET before(i) == Cardinality({ j \in CallsOf(action) : j < i })
    IN  calls[CHOOSE i \in CallsOf(action) : before(i) = k - 1].notes

\* C20: in a run that has reached the end of the commit loop there are as many
\* addNotes calls as canAddNotes calls, and the k-th addNotes call carries the notes
\* of the k-th canAddNotes call.
C20_CommitMirrorsPreflight ==
    pc = "done" =>
        /\ Cardinality(CallsOf("addNotes")) = Cardinality(CallsOf("canAddNotes"))
        /\ \A k \in 1..Cardinality(CallsOf("addNotes")) :
               KthPayload("addNotes", k) = KthPayload("canAddNotes", k)

\* the csv script has committed two batches that differ
C20_Witness ==
    /\ script = "csv"
    /\ pc = "done"
    /\ Cardinality(CallsOf("canAddNotes")) = 2
    /\ Cardinality(CallsOf("addNotes")) = 2
    /\ KthPayload("addNotes", 1) # KthPayload("addNotes", 2)

====
